---- MODULE Spec2Model ----
(***************************************************************************)
(* Model of plugins/modules/vyos_api_command.py: parse_commands and the    *)
(* poll-and-retry loop of main().  Strings that the code inspects          *)
(* (commands, device output, literals) are sequences of characters.        *)
(***************************************************************************)
EXTENDS Integers, Sequences, FiniteSets, TLC

VARIABLES
    commands,          \* module.params["commands"] (mutated by parse_commands)
    check_mode,        \* module.check_mode
    wait_for,          \* module.params["wait_for"] or list()
    match,             \* module.params["match"]
    retries,           \* module.params["retries"]
    warnings,          \* the warnings list of main
    conditionals,      \* the list of Conditional objects still pending
    responses,         \* the local variable responses (unbound before a dispatch)
    attempt,           \* number of iterations of "for item in range(retries)" begun
    pc,                \* position in main, or the terminal outcome
    msg,               \* msg handed to fail_json / kind of the uncaught exception
    failed_conditions, \* failed_conditions handed to fail_json
    stdout,            \* result["stdout"] handed to exit_json
    dispatches,        \* calls of run_api_commands made
    sleeps,            \* calls of time.sleep made
    evals,             \* calls of a Conditional made
    evaluated,         \* ids of the conditionals called on the latest attempt, in order
    everTrue,          \* ids of the conditionals that have returned true
    firstTrueAt,       \* attempt on which a conditional first returned true (0: none)
    emptiedAt,         \* attempt whose evaluation first left conditionals empty (0: none)
    commands0,         \* module.params["commands"] as the playbook gave it
    sent,              \* the batches handed to run_api_commands, in order
    lastReceived       \* what the latest dispatch that returned has returned

vars == <<commands, check_mode, wait_for, match, retries, warnings, conditionals,
          responses, attempt, pc, msg, failed_conditions, stdout, dispatches,
          sleeps, evals, evaluated, everTrue, firstTrueAt, emptiedAt, commands0,
          sent, lastReceived>>

----------------------------------------------------------------------------
(* Bounds of the model *)

MaxCmds == 2
MaxWait == 2
MaxRetries == 2

----------------------------------------------------------------------------
(* Strings *)

StartsWith(s, p) == Len(s) >= Len(p) /\ SubSeq(s, 1, Len(p)) = p

Contains(s, lit) ==
    \E i \in 1..(Len(s) + 1) :
        i + Len(lit) - 1 <= Len(s) /\ SubSeq(s, i, i + Len(lit) - 1) = lit

StartsWithAny(s, ps) == \E i \in 1..Len(ps) : StartsWith(s, ps[i])

SHOW == <<"s", "h", "o", "w">>

API_COMMANDS ==
    << SHOW,
       <<"g", "e", "n", "e", "r", "a", "t", "e">>,
       <<"s", "e", "t">>,
       <<"d", "e", "l", "e", "t", "e">>,
       <<"c", "o", "m", "m", "e", "n", "t">> >>

\* The commands a playbook may hand over: "show v", "set x", "reboot"
CommandUniverse ==
    { <<"s", "h", "o", "w", " ", "v">>,
      <<"s", "e", "t", " ", "x">>,
      <<"r", "e", "b", "o", "o", "t">> }

\* What the device may answer to one command: "b" or "ab"
OutputUniverse == { <<"b">>, <<"a", "b">> }

\* The wait_for expressions a playbook may hand over, as their tokens:
\*   result[0] contains 'a' ; result[1] eq 'b' ; result[0] frobnicate 'x'
ExprUniverse ==
    { [key |-> 0, op |-> "contains", val |-> <<"a">>],
      [key |-> 1, op |-> "eq", val |-> <<"b">>],
      [key |-> 0, op |-> "frobnicate", val |-> <<"x">>] }

OPERATORS == {"eq", "neq", "contains"}

SeqsUpTo(S, lo, hi) == UNION { [1..n -> S] : n \in lo..hi }

----------------------------------------------------------------------------
(* Python list helpers *)

\* A remove that drops the head of the list whatever x is
ListRemoveHead(l, x) == IF l = <<>> THEN <<>> ELSE Tail(l)

\* A remove that leaves the list as it is
ListRemoveNothing(l, x) == l

\* list.remove(x): drops the first element equal to x
RECURSIVE ListRemove(_, _)
ListRemove(l, x) ==
    IF l = <<>> THEN <<>>
    ELSE IF Head(l) = x THEN Tail(l)
    ELSE <<Head(l)>> \o ListRemove(Tail(l), x)

----------------------------------------------------------------------------
(* parse_commands(module, warnings) *)

\* A loop without the allow-list test
RECURSIVE ParseLoopAllowsAll(_, _, _, _)
ParseLoopAllowsAll(snapshot, cmds, warns, chk) ==
    IF snapshot = <<>> THEN [failed |-> FALSE, commands |-> cmds, warnings |-> warns]
    ELSE LET item == Head(snapshot) IN
         IF chk /\ ~StartsWith(item, SHOW)
         THEN ParseLoopAllowsAll(Tail(snapshot), ListRemove(cmds, item),
                                 Append(warns, item), chk)
         ELSE ParseLoopAllowsAll(Tail(snapshot), cmds, warns, chk)

\* A loop that warns in check mode but leaves the command in the batch
RECURSIVE ParseLoopWarnsOnly(_, _, _, _)
ParseLoopWarnsOnly(snapshot, cmds, warns, chk) ==
    IF snapshot = <<>> THEN [failed |-> FALSE, commands |-> cmds, warnings |-> warns]
    ELSE LET item == Head(snapshot) IN
         IF ~StartsWithAny(item, API_COMMANDS)
         THEN [failed |-> TRUE, commands |-> cmds, warnings |-> warns]
         ELSE IF chk /\ ~StartsWith(item, SHOW)
              THEN ParseLoopWarnsOnly(Tail(snapshot), cmds, Append(warns, item), chk)
              ELSE ParseLoopWarnsOnly(Tail(snapshot), cmds, warns, chk)

\* The loop "for item in list(commands)": snapshot is what is left of the copy,
\* cmds the list being mutated.  fail_json ends the module at once.
RECURSIVE ParseLoop(_, _, _, _)
ParseLoop(snapshot, cmds, warns, chk) ==
    IF snapshot = <<>> THEN [failed |-> FALSE, commands |-> cmds, warnings |-> warns]
    ELSE LET item == Head(snapshot) IN
         IF ~StartsWithAny(item, API_COMMANDS)
         THEN [failed |-> TRUE, commands |-> cmds, warnings |-> warns]
         ELSE IF chk /\ ~StartsWith(item, SHOW)
              THEN ParseLoop(Tail(snapshot), ListRemove(cmds, item),
                             Append(warns, item), chk)
              ELSE ParseLoop(Tail(snapshot), cmds, warns, chk)

parse_commands(cmds, warns, chk) == ParseLoop(cmds, cmds, warns, chk)

----------------------------------------------------------------------------
(* Conditional (ansible.netcommon), as the code uses it *)

\* Conditional(c): the operator is looked up at construction; an unknown one
\* makes the constructor fail.
CompileFails(raw) == raw.op \notin OPERATORS

\* The i-th object built by "[Conditional(c) for c in wait_for]"; id is the
\* object's identity, raw its .raw attribute.
Conditional(i, raw) == [id |-> i, raw |-> raw]

\* item(responses): "true", "false", or "raise" when the indexed element does
\* not exist in the response.
Call(item, resp) ==
    IF item.raw.key + 1 > Len(resp) THEN "raise"
    ELSE LET v == resp[item.raw.key + 1] IN
         CASE item.raw.op = "contains" -> IF Contains(v, item.raw.val) THEN "true" ELSE "false"
           [] item.raw.op = "eq"       -> IF v = item.raw.val THEN "true" ELSE "false"
           [] item.raw.op = "neq"      -> IF v # item.raw.val THEN "true" ELSE "false"
           [] OTHER                    -> "false"

----------------------------------------------------------------------------
(* run_api_commands (module_utils), as the code uses it *)

TransportError == [ok |-> FALSE, value |-> <<>>]

\* The outcomes of one dispatch of the batch: one output per command, or a
\* transport failure.
run_api_commands(cmds) ==
    { [ok |-> TRUE, value |-> r] : r \in [1..Len(cmds) -> OutputUniverse] }
        \cup {TransportError}

----------------------------------------------------------------------------
(* main() *)

Unbound == [bound |-> FALSE, value |-> <<>>]
Bound(r) == [bound |-> TRUE, value |-> r]

Terminal == {"Success", "Failure", "Fatal", "Exception"}

\* A range that runs one iteration too far
InRangeInclusive(i, n) == i <= n

\* "for item in range(retries)": is there an iteration number i (from 0)?
InRange(i, n) == i < n

\* A true conditional that clears the list under either match policy
OnTrueClear(conds, item, m) == <<>>

\* A true conditional that is removed alone under either match policy
OnTrueRemove(conds, item, m) == ListRemove(conds, item)

\* What a conditional that returned true does to the list
OnTrue(conds, item, m) == IF m = "any" THEN <<>> ELSE ListRemove(conds, item)

\* An inner loop without the break of match=any
RECURSIVE EvalLoopNoBreak(_, _, _, _, _, _)
EvalLoopNoBreak(snapshot, conds, resp, m, log, trues) ==
    IF snapshot = <<>>
    THEN [conditionals |-> conds, evaluated |-> log, trues |-> trues, raised |-> FALSE]
    ELSE LET item == Head(snapshot)
             r == Call(item, resp)
             log2 == Append(log, item.id)
         IN  IF r = "raise"
             THEN [conditionals |-> conds, evaluated |-> log2, trues |-> trues,
                   raised |-> TRUE]
             ELSE IF r = "true"
                  THEN EvalLoopNoBreak(Tail(snapshot), OnTrue(conds, item, m), resp, m,
                                       log2, trues \cup {item.id})
                  ELSE EvalLoopNoBreak(Tail(snapshot), conds, resp, m, log2, trues)

\* The loop "for item in list(conditionals)" of one attempt.
RECURSIVE EvalLoop(_, _, _, _, _, _)
EvalLoop(snapshot, conds, resp, m, log, trues) ==
    IF snapshot = <<>>
    THEN [conditionals |-> conds, evaluated |-> log, trues |-> trues, raised |-> FALSE]
    ELSE LET item == Head(snapshot)
             r == Call(item, resp)
             log2 == Append(log, item.id)
         IN  IF r = "raise"
             THEN [conditionals |-> conds, evaluated |-> log2, trues |-> trues,
                   raised |-> TRUE]
             ELSE IF r = "true"
                  THEN IF m = "any"
                       THEN [conditionals |-> OnTrue(conds, item, m), evaluated |-> log2,
                             trues |-> trues \cup {item.id}, raised |-> FALSE]
                       ELSE EvalLoop(Tail(snapshot), OnTrue(conds, item, m), resp, m,
                                     log2, trues \cup {item.id})
                  ELSE EvalLoop(Tail(snapshot), conds, resp, m, log2, trues)

Init ==
    /\ commands \in SeqsUpTo(CommandUniverse, 1, MaxCmds)
    /\ commands0 = commands
    /\ sent = <<>>
    /\ lastReceived = <<>>
    /\ check_mode \in BOOLEAN
    /\ wait_for \in SeqsUpTo(ExprUniverse, 0, MaxWait)
    /\ match \in {"all", "any"}
    /\ retries \in 0..MaxRetries
    /\ warnings = <<>>
    /\ conditionals = <<>>
    /\ responses = Unbound
    /\ attempt = 0
    /\ pc = "parse"
    /\ msg = "none"
    /\ failed_conditions = <<>>
    /\ stdout = Unbound
    /\ dispatches = 0
    /\ sleeps = 0
    /\ evals = 0
    /\ evaluated = <<>>
    /\ everTrue = {}
    /\ firstTrueAt = 0
    /\ emptiedAt = 0

\* commands = parse_commands(module, warnings)
ParseCommands ==
    /\ pc = "parse"
    /\ UNCHANGED <<commands0, sent, lastReceived>>
    /\ LET r == parse_commands(commands, warnings, check_mode) IN
         /\ commands' = r.commands
         /\ warnings' = r.warnings
         /\ IF r.failed
            THEN pc' = "Fatal" /\ msg' = "not an allowed command"
            ELSE pc' = "compile" /\ msg' = msg
    /\ UNCHANGED <<check_mode, wait_for, match, retries, conditionals, responses,
                   attempt, failed_conditions, stdout, dispatches, sleeps, evals,
                   evaluated, everTrue, firstTrueAt, emptiedAt>>

\* A compilation that drops the expressions it cannot parse and carries on
CompileSkipsMalformed ==
    /\ pc = "compile"
    /\ UNCHANGED <<commands0, sent, lastReceived>>
    /\ pc' = "loop"
    /\ conditionals' =
         SelectSeq([i \in 1..Len(wait_for) |-> Conditional(i, wait_for[i])],
                   LAMBDA c : ~CompileFails(c.raw))
    /\ UNCHANGED <<commands, check_mode, wait_for, match, retries, warnings, responses,
                   attempt, msg, failed_conditions, stdout, dispatches, sleeps, evals,
                   evaluated, everTrue, firstTrueAt, emptiedAt>>

\* conditionals = [Conditional(c) for c in wait_for], failing the module on error
Compile ==
    /\ pc = "compile"
    /\ UNCHANGED <<commands0, sent, lastReceived>>
    /\ IF \E i \in 1..Len(wait_for) : CompileFails(wait_for[i])
       THEN /\ pc' = "Fatal"
            /\ msg' = "unknown operator"
            /\ conditionals' = conditionals
       ELSE /\ pc' = "loop"
            /\ msg' = msg
            /\ conditionals' = [i \in 1..Len(wait_for) |-> Conditional(i, wait_for[i])]
    /\ UNCHANGED <<commands, check_mode, wait_for, match, retries, warnings, responses,
                   attempt, failed_conditions, stdout, dispatches, sleeps, evals,
                   evaluated, everTrue, firstTrueAt, emptiedAt>>

\* A dispatch whose transport failure is swallowed: the loop goes on to the sleep
DispatchToleratesFailure ==
    /\ pc = "loop"
    /\ sent' = Append(sent, commands)
    /\ UNCHANGED commands0
    /\ InRange(attempt, retries)
    /\ attempt' = attempt + 1
    /\ dispatches' = dispatches + 1
    /\ \E out \in run_api_commands(commands) :
         IF out.ok
         THEN /\ responses' = Bound(out.value)
              /\ lastReceived' = out.value
              /\ pc' = "eval"
              /\ msg' = msg
         ELSE /\ responses' = responses
              /\ lastReceived' = lastReceived
              /\ pc' = "sleep"
              /\ msg' = "transport error"
    /\ UNCHANGED <<commands, check_mode, wait_for, match, retries, warnings,
                   conditionals, failed_conditions, stdout, sleeps, evals, evaluated,
                   everTrue, firstTrueAt, emptiedAt>>

\* A dispatch that uses up the list it sends: the first command is popped
DispatchConsumesBatch ==
    /\ pc = "loop"
    /\ sent' = Append(sent, commands)
    /\ UNCHANGED commands0
    /\ InRange(attempt, retries)
    /\ attempt' = attempt + 1
    /\ dispatches' = dispatches + 1
    /\ commands' = IF commands = <<>> THEN <<>> ELSE Tail(commands)
    /\ \E out \in run_api_commands(commands) :
         IF out.ok
         THEN /\ responses' = Bound(out.value)
              /\ lastReceived' = out.value
              /\ pc' = "eval"
              /\ msg' = msg
         ELSE /\ responses' = responses
              /\ lastReceived' = lastReceived
              /\ pc' = "Fatal"
              /\ msg' = "transport error"
    /\ UNCHANGED <<check_mode, wait_for, match, retries, warnings,
                   conditionals, failed_conditions, stdout, sleeps, evals, evaluated,
                   everTrue, firstTrueAt, emptiedAt>>

\* One more iteration: responses = run_api_commands(module, commands, direct_fail)
Dispatch ==
    /\ pc = "loop"
    /\ sent' = Append(sent, commands)
    /\ UNCHANGED commands0
    /\ InRange(attempt, retries)
    /\ attempt' = attempt + 1
    /\ dispatches' = dispatches + 1
    /\ \E out \in run_api_commands(commands) :
         IF out.ok
         THEN /\ responses' = Bound(out.value)
              /\ lastReceived' = out.value
              /\ pc' = "eval"
              /\ msg' = msg
         ELSE /\ responses' = responses
              /\ lastReceived' = lastReceived
              /\ pc' = "Fatal"
              /\ msg' = "transport error"
    /\ UNCHANGED <<commands, check_mode, wait_for, match, retries, warnings,
                   conditionals, failed_conditions, stdout, sleeps, evals, evaluated,
                   everTrue, firstTrueAt, emptiedAt>>

\* range(retries) is used up
LoopExhausted ==
    /\ pc = "loop"
    /\ UNCHANGED <<commands0, sent, lastReceived>>
    /\ ~InRange(attempt, retries)
    /\ pc' = "after"
    /\ UNCHANGED <<commands, check_mode, wait_for, match, retries, warnings,
                   conditionals, responses, attempt, msg, failed_conditions, stdout,
                   dispatches, sleeps, evals, evaluated, everTrue, firstTrueAt,
                   emptiedAt>>

\* for item in list(conditionals): ...
Evaluate ==
    /\ pc = "eval"
    /\ UNCHANGED <<commands0, sent, lastReceived>>
    /\ LET r == EvalLoop(conditionals, conditionals, responses.value, match, <<>>, {}) IN
         /\ conditionals' = r.conditionals
         /\ evaluated' = r.evaluated
         /\ evals' = evals + Len(r.evaluated)
         /\ everTrue' = everTrue \cup r.trues
         /\ firstTrueAt' = IF firstTrueAt = 0 /\ r.trues # {} THEN attempt ELSE firstTrueAt
         /\ emptiedAt' = IF emptiedAt = 0 /\ r.conditionals = <<>> /\ ~r.raised
                          THEN attempt ELSE emptiedAt
         /\ IF r.raised
            THEN pc' = "Exception" /\ msg' = "unable to apply conditional to result"
            ELSE pc' = "decide" /\ msg' = msg
    /\ UNCHANGED <<commands, check_mode, wait_for, match, retries, warnings, responses,
                   attempt, failed_conditions, stdout, dispatches, sleeps>>

\* A loop tail without the break: it sleeps and goes round again
DecideNeverBreaks ==
    /\ pc = "decide"
    /\ UNCHANGED <<commands0, sent, lastReceived>>
    /\ pc' = "sleep"
    /\ UNCHANGED <<commands, check_mode, wait_for, match, retries, warnings,
                   conditionals, responses, attempt, msg, failed_conditions, stdout,
                   dispatches, sleeps, evals, evaluated, everTrue, firstTrueAt,
                   emptiedAt>>

\* A loop tail that sleeps before it tests for the break
DecideSleepsFirst ==
    /\ pc = "decide"
    /\ UNCHANGED <<commands0, sent, lastReceived>>
    /\ sleeps' = sleeps + 1
    /\ IF conditionals = <<>> THEN pc' = "after" ELSE pc' = "loop"
    /\ UNCHANGED <<commands, check_mode, wait_for, match, retries, warnings,
                   conditionals, responses, attempt, msg, failed_conditions, stdout,
                   dispatches, evals, evaluated, everTrue, firstTrueAt, emptiedAt>>

\* A loop tail that waits for the list to empty without dispatching again
DecideWaitsForEmpty ==
    /\ pc = "decide"
    /\ UNCHANGED <<commands0, sent, lastReceived>>
    /\ IF conditionals = <<>> THEN pc' = "after" ELSE pc' = "decide"
    /\ UNCHANGED <<commands, check_mode, wait_for, match, retries, warnings,
                   conditionals, responses, attempt, msg, failed_conditions, stdout,
                   dispatches, sleeps, evals, evaluated, everTrue, firstTrueAt,
                   emptiedAt>>

\* if not conditionals: break
Decide ==
    /\ pc = "decide"
    /\ UNCHANGED <<commands0, sent, lastReceived>>
    /\ IF conditionals = <<>> THEN pc' = "after" ELSE pc' = "sleep"
    /\ UNCHANGED <<commands, check_mode, wait_for, match, retries, warnings,
                   conditionals, responses, attempt, msg, failed_conditions, stdout,
                   dispatches, sleeps, evals, evaluated, everTrue, firstTrueAt,
                   emptiedAt>>

\* time.sleep(interval)
Sleep ==
    /\ pc = "sleep"
    /\ UNCHANGED <<commands0, sent, lastReceived>>
    /\ sleeps' = sleeps + 1
    /\ pc' = "loop"
    /\ UNCHANGED <<commands, check_mode, wait_for, match, retries, warnings,
                   conditionals, responses, attempt, msg, failed_conditions, stdout,
                   dispatches, evals, evaluated, everTrue, firstTrueAt, emptiedAt>>

\* An ending that takes a never-assigned responses for an empty one
FinishWithDefaultResponses ==
    /\ pc = "after"
    /\ UNCHANGED <<commands0, sent, lastReceived>>
    /\ IF conditionals # <<>>
       THEN /\ failed_conditions' = [i \in 1..Len(conditionals) |-> conditionals[i].raw]
            /\ msg' = "conditionals not satisfied"
            /\ stdout' = stdout
            /\ pc' = "Failure"
       ELSE /\ stdout' = Bound(responses.value)
            /\ pc' = "Success"
            /\ UNCHANGED <<failed_conditions, msg>>
    /\ UNCHANGED <<commands, check_mode, wait_for, match, retries, warnings,
                   conditionals, responses, attempt, dispatches, sleeps, evals,
                   evaluated, everTrue, firstTrueAt, emptiedAt>>

\* The code after the loop: fail_json with the pending expressions, or exit_json
Finish ==
    /\ pc = "after"
    /\ UNCHANGED <<commands0, sent, lastReceived>>
    /\ IF conditionals # <<>>
       THEN /\ failed_conditions' = [i \in 1..Len(conditionals) |-> conditionals[i].raw]
            /\ msg' = "conditionals not satisfied"
            /\ stdout' = stdout
            /\ pc' = "Failure"
       ELSE IF ~responses.bound
            THEN /\ msg' = "responses referenced before assignment"
                 /\ pc' = "Exception"
                 /\ UNCHANGED <<failed_conditions, stdout>>
            ELSE /\ stdout' = responses
                 /\ pc' = "Success"
                 /\ UNCHANGED <<failed_conditions, msg>>
    /\ UNCHANGED <<commands, check_mode, wait_for, match, retries, warnings,
                   conditionals, responses, attempt, dispatches, sleeps, evals,
                   evaluated, everTrue, firstTrueAt, emptiedAt>>

Next ==
    \/ ParseCommands
    \/ Compile
    \/ Dispatch
    \/ LoopExhausted
    \/ Evaluate
    \/ Decide
    \/ Sleep
    \/ Finish

Spec == Init /\ [][Next]_vars

\* The module runs on: every call it makes returns and the next statement is executed
FairSpec == Init /\ [][Next]_vars /\ WF_vars(Next)

TypeOK ==
    /\ pc \in {"parse", "compile", "loop", "eval", "decide", "sleep", "after"} \cup Terminal
    /\ attempt \in 0..(MaxRetries + 1)
    /\ dispatches \in 0..(MaxRetries + 1)

----------------------------------------------------------------------------
(* Properties *)

\* C1: with an empty wait_for, whatever retries is, exactly one dispatch is
\* made and the poll ends in Success, unless the dispatch fails in transport
\* (or the batch was refused before the poll began).
C1_SingleDispatchSuccess ==
    (pc \in Terminal /\ wait_for = <<>>
        /\ msg \notin {"transport error", "not an allowed command"})
    => (dispatches = 1 /\ pc = "Success")

\* C2: when the poll ends with conditions still pending after its last
\* attempt, sleep has been called exactly dispatches - 1 times.
C2_SleepsOnExhaustion ==
    (pc = "Failure" /\ dispatches >= 1) => sleeps = dispatches - 1

\* C3: with match=all, the poll ends in Success only if every compiled
\* condition has returned true on some attempt.
C3_AllSuccessNeedsEveryCondition ==
    (pc = "Success" /\ match = "all") => \A i \in 1..Len(wait_for) : i \in everTrue

C3_Witness ==
    /\ pc = "Success" /\ match = "all" /\ Len(wait_for) = 2
    /\ firstTrueAt = 1 /\ emptiedAt = 2

\* C4: with match=any and a non-empty wait_for, Success needs a condition that
\* returned true, and no dispatch is made after the attempt on which a
\* condition first returned true.
C4_AnySuccessAndStop ==
    (match = "any" /\ wait_for # <<>>) =>
        /\ pc = "Success" => everTrue # {}
        /\ firstTrueAt # 0 => dispatches = firstTrueAt

C4_Witness ==
    /\ pc = "Success" /\ match = "any" /\ Len(wait_for) = 2
    /\ firstTrueAt = 1 /\ retries >= 2 /\ Cardinality(everTrue) = 1

\* C5: the number of dispatches never exceeds retries.
C5_DispatchesWithinRetries == dispatches <= retries

C5_Witness == pc = "Failure" /\ retries >= 2 /\ dispatches = retries

\* C6: once the evaluation of attempt k has left the pending list empty, there
\* have been exactly k dispatches and k - 1 sleeps, neither number changes any
\* more, and the poll can only go on to Success.
C6_SuccessOnAttemptK ==
    emptiedAt # 0 =>
        /\ dispatches = emptiedAt
        /\ sleeps = emptiedAt - 1
        /\ pc \in {"decide", "after", "Success"}

C6_Witness ==
    pc = "Success" /\ wait_for # <<>> /\ emptiedAt = 2 /\ sleeps = 1

\* The raw expressions, in wait_for order from position i on, of the conditions
\* that have never returned true
RECURSIVE NeverTrueRaws(_)
NeverTrueRaws(i) ==
    IF i > Len(wait_for) THEN <<>>
    ELSE (IF i \in everTrue THEN <<>> ELSE <<wait_for[i]>>) \o NeverTrueRaws(i + 1)

\* C7: on Failure, failed_conditions is exactly the raw expressions of the
\* conditions still pending (those that never returned true), in wait_for order.
C7_FailedConditionsArePending ==
    pc = "Failure" => failed_conditions = NeverTrueRaws(1)

C7_Witness ==
    /\ pc = "Failure" /\ match = "all" /\ Len(wait_for) = 2
    /\ everTrue = {2} /\ dispatches = 2

\* C8: if some wait_for expression does not compile, no dispatch is ever made
\* and the operation can only end in the fatal failure.
C8_CompileBeforeDispatch ==
    (\E i \in 1..Len(wait_for) : CompileFails(wait_for[i])) =>
        /\ dispatches = 0
        /\ pc \in Terminal => pc = "Fatal"

C8_Witness ==
    /\ pc = "Fatal" /\ msg = "unknown operator" /\ Len(wait_for) = 2
    /\ ~CompileFails(wait_for[1]) /\ CompileFails(wait_for[2]) /\ retries >= 1

C10_IndexErrorNotPropagated ==
    ~(pc = "Exception" /\ msg = "unable to apply conditional to result")

\* The identities of the objects in a list of conditionals
Ids(l) == { l[i].id : i \in 1..Len(l) }

\* The elements of a sequence
SeqRange(q) == { q[i] : i \in 1..Len(q) }

\* C11: with match=all, once compiled the pending list only shrinks: no step
\* adds an object to it, an object that has returned true is no longer in it,
\* and an attempt never calls an object that returned true on an earlier one.
C11_PendingOnlyShrinks ==
    [][(match = "all" /\ pc # "compile") =>
          /\ Ids(conditionals') \subseteq Ids(conditionals)
          /\ everTrue \subseteq everTrue'
          /\ everTrue' \cap Ids(conditionals') = {}
          /\ (pc = "eval" => SeqRange(evaluated') \cap everTrue = {})]_vars

C11_Witness ==
    /\ match = "all" /\ pc = "decide" /\ attempt = 2 /\ conditionals # <<>>
    /\ firstTrueAt = 1 /\ 1 \in everTrue
    /\ Call(Conditional(1, wait_for[1]), responses.value) = "false"

\* C12: with a non-empty wait_for whose pending list never empties (and no
\* fatal failure), the poll ends in Failure after exactly retries dispatches.
C12_ExhaustionTakesRetriesDispatches ==
    (pc \in Terminal /\ pc # "Fatal" /\ wait_for # <<>> /\ emptiedAt = 0)
    => (dispatches = retries /\ pc = "Failure")

\* C13: with match=any, an attempt calls the conditions in wait_for order, and
\* the one that returns true is the last one called and empties the list.
C13_AnyStopsAtFirstTrue ==
    match = "any" =>
        /\ \A j \in 1..Len(evaluated) : evaluated[j] = j
        /\ everTrue # {} =>
              /\ conditionals = <<>>
              /\ everTrue = {evaluated[Len(evaluated)]}

C13_Witness ==
    /\ match = "any" /\ pc = "decide" /\ Len(wait_for) = 2 /\ everTrue = {1}
    /\ Call(Conditional(2, wait_for[2]), responses.value) = "true"

\* C14: every run of the module reaches a terminal state.
C14_PollTerminates == <>(pc \in Terminal)

C14_Witness == pc = "Failure" /\ sleeps = 2 /\ dispatches = 2

\* C15: a Success reports the output of the last dispatch made, and there is
\* no Success without a dispatch that returned.
C15_SuccessReportsLastResponse ==
    pc = "Success" =>
        /\ stdout = Bound(lastReceived)
        /\ dispatches >= 1
        /\ Len(sent) = dispatches

C15_Witness == pc = "Success" /\ dispatches = 2 /\ wait_for # <<>> /\ commands # <<>>

\* C16: a batch holding a command without an allowed verb prefix fails before
\* any dispatch, and no batch dispatched holds such a command.
C16_OnlyAllowedCommandsDispatched ==
    /\ (\E i \in 1..Len(commands0) : ~StartsWithAny(commands0[i], API_COMMANDS)) =>
          /\ dispatches = 0
          /\ sent = <<>>
          /\ pc \in Terminal => pc = "Fatal"
    /\ \A k \in 1..Len(sent) : \A i \in 1..Len(sent[k]) :
          StartsWithAny(sent[k][i], API_COMMANDS)

C16_Witness ==
    /\ pc = "Fatal" /\ msg = "not an allowed command" /\ Len(commands0) = 2
    /\ StartsWithAny(commands0[1], API_COMMANDS)
    /\ ~StartsWithAny(commands0[2], API_COMMANDS)
    /\ retries >= 1

\* C17: every attempt of one poll dispatches the same batch, the one
\* parse_commands returned.
C17_SameBatchEveryAttempt ==
    \A k \in 1..Len(sent) : sent[k] = sent[1] /\ sent[k] = commands

C17_Witness ==
    Len(sent) = 2 /\ Len(sent[1]) = 2 /\ sleeps = 1 /\ evals >= 2 /\ pc \in Terminal

\* C18: with match=any the pending list is always the whole compiled list or
\* empty, and a Failure reports every wait_for expression.
C18_AnyPendingAllOrNothing ==
    match = "any" =>
        /\ \/ conditionals = <<>>
           \/ conditionals = [i \in 1..Len(wait_for) |-> Conditional(i, wait_for[i])]
        /\ pc = "Failure" => failed_conditions = wait_for

C18_Witness ==
    match = "any" /\ pc = "Failure" /\ Len(wait_for) = 2 /\ dispatches = 2

====
